---------------------------- MODULE Spec2Model ----------------------------
(***************************************************************************)
(* Model of package sonos (github.com/dsymonds/sonos): discovery of the    *)
(* devices on the network, their grouping by zone, the resolution of a     *)
(* zone to a device handle and the control operations issued through a     *)
(* handle.                                                                 *)
(*                                                                         *)
(* External primitives (goupnp's discovery probe, SOAPClient's             *)
(* PerformActionCtx, encoding/xml) are modelled by what they return to the *)
(* package: the environment picks each reply.                              *)
(*                                                                         *)
(* Strings are TLC strings, except the manufacturer strings, which are     *)
(* sequences of characters so that strings.Contains is a real substring    *)
(* search.  A Go error is the chain of its messages, <<>> being nil.       *)
(* A *goupnp.Device is the index of its response in mrds (each response    *)
(* carries its own RootDevice, so the index is the pointer's identity).    *)
(***************************************************************************)
EXTENDS Integers, Sequences, FiniteSets, TLC

VARIABLES
    mrds,       \* the probe's responses, in response order (environment)
    dpc,        \* Discover: "start", "loop", "returned", "failed"
    dctx,       \* Discover's ctx is cancelled
    dctx0,      \* ... was cancelled when Discover was called (history)
    idx,        \* Discover: index of the next response to process
    devices,    \* Client.devices
    zones,      \* Client.zones: a map, its DOMAIN the keys present
    derr,       \* Discover's returned error
    dnet,       \* Discover's network calls, in order (history)
    lookup,     \* per response, how its zone lookup ended (history)
    pc,         \* per caller: "idle", "soap", "browse", "parse", "add", "done"
    zreq,       \* per caller: the last ZoneDevice call (history)
    handle,     \* per caller: the *Device ZoneDevice returned (0: nil)
    zerr,       \* per caller: the error ZoneDevice returned
    op,         \* per caller: the control operation running or just run
    arg,        \* per caller: its argument
    ctx,        \* per caller: the operation's ctx is cancelled
    ctx0,       \* ... was cancelled when the operation was called (history)
    err,        \* per caller: LoadSonosPlaylist's variable err
    raw,        \* per caller: LoadSonosPlaylist's raw.Result
    didl,       \* per caller: LoadSonosPlaylist's didl.Container
    perr,       \* per caller: what xml.Unmarshal returned (history)
    uri,        \* per caller: LoadSonosPlaylist's uri
    ret,        \* per caller: the error the operation returned
    calls,      \* per caller: the operation's PerformActionCtx calls (history)
    resp        \* per caller: what those calls returned (history)

dvars == <<mrds, dpc, dctx, dctx0, idx, devices, zones, derr, dnet, lookup>>
zvars == <<zreq, handle, zerr>>
ovars == <<pc, op, arg, ctx, ctx0, err, raw, didl, perr, uri, ret, calls, resp>>
vars == <<dvars, zvars, ovars>>

-----------------------------------------------------------------------------
(* Bounds *)

MaxResp == 2        \* probe responses per discovery (main specification)
MaxEntries == 3     \* elements per content-listing document
MaxHours == 2       \* hours in a sleep-timer duration, besides 0, 1 and 100

Callers == {1, 2}

-----------------------------------------------------------------------------
(* Strings and errors *)

NoErr == <<>>

\* fmt.Errorf("<msg>: %w", cause)
Wrap(msg, cause) == <<msg>> \o cause

Digit(n) == <<"0", "1", "2", "3", "4", "5", "6", "7", "8", "9">>[n + 1]

\* strconv.Itoa, and fmt's %d
RECURSIVE Itoa(_)
Itoa(n) ==
    IF n < 0 THEN "-" \o Itoa(-n)
    ELSE IF n < 10 THEN Digit(n)
    ELSE Itoa(n \div 10) \o Digit(n % 10)

\* The width of %d's output
RECURSIVE StrLen(_)
StrLen(n) == IF n < 0 THEN 1 + StrLen(-n) ELSE IF n < 10 THEN 1 ELSE 1 + StrLen(n \div 10)

\* fmt's %02d: padded with zeros to a width of at least two
Pad2(n) == IF StrLen(n) >= 2 THEN Itoa(n) ELSE "0" \o Itoa(n)

\* strings.Contains on sequences of characters
Contains(s, sub) ==
    \E i \in 0..(Len(s) - Len(sub)) : SubSeq(s, i + 1, i + Len(sub)) = sub

\* Go map read and write
MapGet(m, k) == IF k \in DOMAIN m THEN m[k] ELSE <<>>
MapPut(m, k, v) == [x \in (DOMAIN m) \cup {k} |-> IF x = k THEN v ELSE m[x]]

-----------------------------------------------------------------------------
(* Devices *)

devPropertiesService == "urn:schemas-upnp-org:service:DeviceProperties:1"
URN_AVTransport_1 == "urn:schemas-upnp-org:service:AVTransport:1"
URN_ContentDirectory_1 == "urn:schemas-upnp-org:service:ContentDirectory:1"
URN_RenderingControl_1 == "urn:schemas-upnp-org:service:RenderingControl:1"

VendorName == <<"S", "o", "n", "o", "s", ",", " ", "I", "n", "c", ".">>

AllServices ==
    {devPropertiesService, URN_AVTransport_1, URN_ContentDirectory_1,
     URN_RenderingControl_1}

\* One probe response (goupnp.MaybeRootDevice): Err, or the root device with
\* its manufacturer and the service types it advertises.
Response(e, m, s) == [Err |-> e, Manufacturer |-> m, services |-> s]

ErrResponse == Response(TRUE, <<>>, {})
OtherVendor == Response(FALSE, SubSeq(VendorName, 1, 10), AllServices)
BareSpeaker == Response(FALSE, VendorName, {})
PropsOnly == Response(FALSE, VendorName, {devPropertiesService})
Transport == Response(FALSE, VendorName, {devPropertiesService, URN_AVTransport_1})
Player == Response(FALSE, <<"X">> \o VendorName \o <<"!">>, AllServices)

ResponseKinds == {ErrResponse, OtherVendor, BareSpeaker, PropsOnly, Transport, Player}

RECURSIVE SeqsUpTo(_, _)
SeqsUpTo(S, n) ==
    IF n = 0 THEN {<<>>}
    ELSE LET shorter == SeqsUpTo(S, n - 1)
         IN  shorter \cup {Append(q, e) : q \in {r \in shorter : Len(r) = n - 1}, e \in S}

\* dev.FindService(serviceType): the services of that type
FindService(dev, serviceType) ==
    IF serviceType \in mrds[dev].services THEN <<serviceType>> ELSE <<>>

\* The zone names devices report, and the names callers ask for
ZoneReplies == {"Kitchen", ""}
ZoneQueries == {"Kitchen", "", "Den"}

\* A remote action's reply as the environment picks it
DiscoverReplies ==
    {[err |-> NoErr, zone |-> z] : z \in ZoneReplies}
        \cup {[err |-> <<"remote error">>, zone |-> ""]}

\* sc.PerformActionCtx(ctx, ...): a cancelled ctx fails the call before any
\* request is sent; otherwise the request is sent and the device's reply
\* decides.
PerformActionCtx(cancelled, reply) ==
    IF cancelled
    THEN [sent |-> FALSE, err |-> <<"context canceled">>]
    ELSE [sent |-> TRUE, err |-> reply.err]

-----------------------------------------------------------------------------
(* Discover *)

\* How a response's zone lookup ended: "none" (not a retained device, or not
\* reached yet), "noservice", "failed", or "zoned" with the zone reported
Lookup(how, zone) == [how |-> how, zone |-> zone]

IsVendorAny(dev) == TRUE

\* strings.Contains(dev.Manufacturer, "Sonos, Inc.")
IsVendor(dev) == Contains(dev.Manufacturer, VendorName)

DevicesSkipUnzoned(devs, dev, zoned) == IF zoned THEN Append(devs, dev) ELSE devs

\* c.devices = append(c.devices, dev), before and whatever the zone lookup
DevicesAfter(devs, dev, zoned) == Append(devs, dev)

ZonePrepend(zs, zone, dev) == MapPut(zs, zone, <<dev>> \o MapGet(zs, zone))

\* c.zones[zone] = append(c.zones[zone], dev)
ZoneAppend(zs, zone, dev) == MapPut(zs, zone, Append(MapGet(zs, zone), dev))

\* goupnp.DiscoverDevices(devPropertiesService): it takes no ctx
DiscoverProbe(ok) ==
    /\ dpc = "start"
    /\ dnet' = Append(dnet, [action |-> "DiscoverDevices", dev |-> 0, cancelled |-> dctx])
    /\ IF ok
       THEN /\ dpc' = "loop"
            /\ derr' = derr
       ELSE /\ dpc' = "failed"
            /\ derr' = Wrap("discovering AV1", <<"probe failed">>)
    /\ UNCHANGED <<mrds, dctx, dctx0, idx, devices, zones, lookup, zvars, ovars>>

\* One iteration of the loop over mrds
DiscoverStep(reply) ==
    /\ dpc = "loop"
    /\ idx <= Len(mrds)
    /\ idx' = idx + 1
    /\ LET mrd == mrds[idx]
           r == PerformActionCtx(dctx, reply)
       IN  IF mrd.Err \/ ~IsVendor(mrd)
           THEN UNCHANGED <<devices, zones, dnet, lookup>>
           ELSE IF Len(FindService(idx, devPropertiesService)) = 0
           THEN /\ devices' = DevicesAfter(devices, idx, FALSE)
                /\ lookup' = [lookup EXCEPT ![idx] = Lookup("noservice", "")]
                /\ UNCHANGED <<zones, dnet>>
           ELSE /\ dnet' = IF r.sent
                           THEN Append(dnet, [action |-> "GetZoneAttributes", dev |-> idx,
                                              cancelled |-> dctx])
                           ELSE dnet
                /\ devices' = DevicesAfter(devices, idx, r.err = NoErr)
                /\ IF r.err # NoErr
                   THEN /\ lookup' = [lookup EXCEPT ![idx] = Lookup("failed", "")]
                        /\ zones' = zones
                   ELSE /\ lookup' = [lookup EXCEPT ![idx] = Lookup("zoned", reply.zone)]
                        /\ zones' = ZoneAppend(zones, reply.zone, idx)
    /\ UNCHANGED <<mrds, dpc, dctx, dctx0, derr, zvars, ovars>>

\* return c, nil
DiscoverReturn ==
    /\ dpc = "loop"
    /\ idx > Len(mrds)
    /\ dpc' = "returned"
    /\ UNCHANGED <<mrds, dctx, dctx0, idx, devices, zones, derr, dnet, lookup, zvars, ovars>>

\* The caller of Discover cancels its ctx while Discover runs
DiscoverCancel ==
    /\ dpc \in {"start", "loop"}
    /\ ~dctx
    /\ dctx' = TRUE
    /\ UNCHANGED <<mrds, dpc, dctx0, idx, devices, zones, derr, dnet, lookup, zvars, ovars>>

DiscoverNext ==
    \/ \E ok \in BOOLEAN : DiscoverProbe(ok)
    \/ \E reply \in DiscoverReplies : DiscoverStep(reply)
    \/ DiscoverReturn
    \/ DiscoverCancel

-----------------------------------------------------------------------------
(* ZoneDevice *)

NoCall == [called |-> FALSE, zone |-> "", cancelled |-> FALSE, impl |-> ""]

\* serviceClient(dev, serviceType): the error it returns
serviceClient(dev, serviceType) ==
    IF Len(FindService(dev, serviceType)) = 0
    THEN <<"unknown service for device", serviceType>>
    ELSE NoErr

\* for _, dev := range devs: the first device serviceClient accepts, 0 if none
FirstUsable(devs) ==
    LET ok == {i \in 1..Len(devs) : serviceClient(devs[i], URN_AVTransport_1) = NoErr}
    IN  IF ok = {} THEN 0 ELSE devs[CHOOSE i \in ok : \A j \in ok : i <= j]

ZonesAfterLookupInserting(zs, zone) ==
    IF zone \in DOMAIN zs THEN zs ELSE MapPut(zs, zone, <<>>)

\* devs, ok := c.zones[zone]: reading a Go map leaves it as it is
ZonesAfterLookup(zs, zone) == zs

\* Client.ZoneDevice; ctx is accepted and not used
ZoneDevice(p, zone, cancelled) ==
    /\ dpc = "returned"
    /\ pc[p] = "idle"
    /\ zreq' = [zreq EXCEPT ![p] = [called |-> TRUE, zone |-> zone,
                                    cancelled |-> cancelled, impl |-> "part_000"]]
    /\ zones' = ZonesAfterLookup(zones, zone)
    /\ IF zone \notin DOMAIN zones
       THEN /\ handle' = [handle EXCEPT ![p] = 0]
            /\ zerr' = [zerr EXCEPT ![p] =
                            <<"unknown zone, or it has no devices", zone>>]
       ELSE LET dev == FirstUsable(zones[zone])
            IN  /\ handle' = [handle EXCEPT ![p] = dev]
                /\ zerr' = [zerr EXCEPT ![p] =
                                IF dev = 0
                                THEN <<"did not find an AV1 service in zone", zone>>
                                ELSE NoErr]
    /\ UNCHANGED <<mrds, dpc, dctx, dctx0, idx, devices, derr, dnet, lookup, ovars>>

\* Client.ZoneDevice as src/sonos.go has it: it ranges over c.zones[zone]
\* without asking whether the key is present
ZoneDevice_sonos_go(p, zone, cancelled) ==
    /\ dpc = "returned"
    /\ pc[p] = "idle"
    /\ zreq' = [zreq EXCEPT ![p] = [called |-> TRUE, zone |-> zone,
                                    cancelled |-> cancelled, impl |-> "sonos.go"]]
    /\ LET dev == FirstUsable(MapGet(zones, zone))
       IN  /\ handle' = [handle EXCEPT ![p] = dev]
           /\ zerr' = [zerr EXCEPT ![p] =
                           IF dev = 0
                           THEN <<"did not find an AV1 service in zone", zone>>
                           ELSE NoErr]
    /\ UNCHANGED <<dvars, ovars>>

-----------------------------------------------------------------------------
(* Control operations *)

\* time.Duration counts nanoseconds; the model counts milliseconds
Millisecond == 1
Second == 1000 * Millisecond
Minute == 60 * Second
Hour == 60 * Minute

Arg(n, s) == [n |-> n, s |-> s]
NoArg == Arg(0, "")

NormalPlayMode == 0
RepeatAll == 1
RepeatOne == 2
Shuffle == 3
ShuffleRepeat == 4
ShuffleRepeatOne == 5

\* playModeIDs[mode]; a mode the map lacks reads as ""
playModeIDs(mode) ==
    CASE mode = NormalPlayMode -> "NORMAL"
      [] mode = RepeatAll -> "REPEAT_ALL"
      [] mode = RepeatOne -> "REPEAT_ONE"
      [] mode = Shuffle -> "SHUFFLE_NOREPEAT"
      [] mode = ShuffleRepeat -> "SHUFFLE"
      [] mode = ShuffleRepeatOne -> "SHUFFLE_REPEAT_ONE"
      [] OTHER -> ""

SleepTimerDurationNoCarry(duration) ==
    IF duration > 0
    THEN Pad2(duration \div Hour) \o ":" \o Pad2(duration \div Minute)
             \o ":" \o Pad2(duration \div Second)
    ELSE ""

\* SetSleepTimer's dur
SleepTimerDuration(duration) ==
    IF duration > 0
    THEN LET hh == duration \div Hour
             d1 == duration - hh * Hour
             mm == d1 \div Minute
             d2 == d1 - mm * Minute
             ss == d2 \div Second
         IN  Pad2(hh) \o ":" \o Pad2(mm) \o ":" \o Pad2(ss)
    ELSE ""

\* The service, action and request fields of each single-call operation
Request(o, a) ==
    CASE o = "Ungroup" ->
            [service |-> URN_AVTransport_1,
             action |-> "BecomeCoordinatorOfStandaloneGroup",
             in |-> <<<<"InstanceID", "0">>>>]
      [] o = "ClearQueue" ->
            [service |-> URN_AVTransport_1,
             action |-> "RemoveAllTracksFromQueue",
             in |-> <<<<"InstanceID", "0">>>>]
      [] o = "SetPlayMode" ->
            [service |-> URN_AVTransport_1,
             action |-> "SetPlayMode",
             in |-> <<<<"InstanceID", "0">>, <<"NewPlayMode", playModeIDs(a.n)>>>>]
      [] o = "SetVolume" ->
            [service |-> URN_RenderingControl_1,
             action |-> "SetVolume",
             in |-> <<<<"InstanceID", "0">>, <<"Channel", "Master">>,
                      <<"DesiredVolume", Itoa(a.n)>>>>]
      [] o = "SetSleepTimer" ->
            [service |-> URN_AVTransport_1,
             action |-> "ConfigureSleepTimer",
             in |-> <<<<"InstanceID", "0">>,
                      <<"NewSleepTimerDuration", SleepTimerDuration(a.n)>>>>]
      [] o = "Play" ->
            [service |-> URN_AVTransport_1,
             action |-> "Play",
             in |-> <<<<"InstanceID", "0">>, <<"Speed", "1">>>>]

BrowseRequest ==
    [service |-> URN_ContentDirectory_1,
     action |-> "Browse",
     in |-> <<<<"ObjectID", "SQ:">>, <<"BrowseFlag", "BrowseDirectChildren">>,
              <<"Filter", "*">>, <<"StartingIndex", "0">>,
              <<"RequestedCount", "100">>,
              <<"SortCriteria", "+upnp:artist,+dc:title">>>>]

AddURIToQueueRequest(u) ==
    [service |-> URN_AVTransport_1,
     action |-> "AddURIToQueue",
     in |-> <<<<"InstanceID", "0">>, <<"EnqueuedURI", u>>,
              <<"EnqueuedURIMetaData", "">>,
              <<"DesiredFirstTrackNumberEnqueued", "1">>,
              <<"EnqueueAsNext", "1">>>>]

\* The message each operation wraps its error in
OpMessage(o) ==
    CASE o = "Ungroup" -> "ungrouping"
      [] o = "ClearQueue" -> "clearing queue"
      [] o = "SetPlayMode" -> "setting play mode"
      [] o = "SetVolume" -> "setting volume"
      [] o = "SetSleepTimer" -> "setting sleep timer"
      [] o = "Play" -> "playing"

\* A content-listing document: its elements up to the end, or up to the place
\* where it stops being well-formed XML (bad)
Element(tag, title, res) == [tag |-> tag, id |-> "SQ:1", title |-> title, res |-> res]
Doc(elems, bad) == [elems |-> elems, bad |-> bad]

\* A well-formed document without elements
EmptyDoc == Doc(<<>>, FALSE)

\* xml.Unmarshal into didl: the container elements, in document order, each
\* with its id attribute, title and res; the ones decoded before a syntax
\* error stay in didl
Unmarshal(doc) ==
    LET IsContainer(e) == e.tag = "container"
        cs == SelectSeq(doc.elems, IsContainer)
    IN  [Container |-> [i \in 1..Len(cs) |->
                            [ID |-> cs[i].id, Title |-> cs[i].title, Res |-> cs[i].res]],
         err |-> IF doc.bad THEN <<"XML syntax error">> ELSE NoErr]

FindURILast(container, playlistName) ==
    LET hits == {i \in 1..Len(container) : container[i].Title = playlistName}
    IN  IF hits = {} THEN ""
        ELSE container[CHOOSE i \in hits : \A j \in hits : i >= j].Res

\* uri after the scan: the Res of the first entry titled playlistName
FindURI(container, playlistName) ==
    LET hits == {i \in 1..Len(container) : container[i].Title = playlistName}
    IN  IF hits = {} THEN ""
        ELSE container[CHOOSE i \in hits : \A j \in hits : i <= j].Res

NotFoundCountingHits(container, playlistName) ==
    <<"did not find Sonos playlist named", playlistName,
      Itoa(Cardinality({i \in 1..Len(container) : container[i].Title = playlistName}))>>

\* fmt.Errorf("did not find Sonos playlist named %q (checked %d)", ...)
NotFound(container, playlistName) ==
    <<"did not find Sonos playlist named", playlistName, Itoa(Len(container))>>

\* What a PerformActionCtx call is recorded as
Call(req, cancelled, r) ==
    [service |-> req.service, action |-> req.action, in |-> req.in,
     cancelled |-> cancelled, sent |-> r.sent]

\* What it returned, as the operation sees it
Result(r, doc) == [sent |-> r.sent, err |-> r.err, doc |-> doc]

\* A caller calls an operation on its handle
Invoke(p, o, a, cancelled) ==
    /\ dpc = "returned"
    /\ pc[p] = "idle"
    /\ handle[p] # 0
    /\ pc' = [pc EXCEPT ![p] = IF o = "LoadSonosPlaylist" THEN "browse" ELSE "soap"]
    /\ op' = [op EXCEPT ![p] = o]
    /\ arg' = [arg EXCEPT ![p] = a]
    /\ ctx' = [ctx EXCEPT ![p] = cancelled]
    /\ ctx0' = [ctx0 EXCEPT ![p] = cancelled]
    /\ UNCHANGED <<dvars, zvars, err, raw, didl, perr, uri, ret, calls, resp>>

\* The operation has returned and the caller has its result: its frame is gone
Return(p) ==
    /\ pc[p] = "done"
    /\ pc' = [pc EXCEPT ![p] = "idle"]
    /\ op' = [op EXCEPT ![p] = ""]
    /\ arg' = [arg EXCEPT ![p] = NoArg]
    /\ ctx' = [ctx EXCEPT ![p] = FALSE]
    /\ ctx0' = [ctx0 EXCEPT ![p] = FALSE]
    /\ err' = [err EXCEPT ![p] = NoErr]
    /\ raw' = [raw EXCEPT ![p] = EmptyDoc]
    /\ didl' = [didl EXCEPT ![p] = <<>>]
    /\ perr' = [perr EXCEPT ![p] = FALSE]
    /\ uri' = [uri EXCEPT ![p] = ""]
    /\ ret' = [ret EXCEPT ![p] = NoErr]
    /\ calls' = [calls EXCEPT ![p] = <<>>]
    /\ resp' = [resp EXCEPT ![p] = <<>>]
    /\ UNCHANGED <<dvars, zvars>>

\* The caller cancels the ctx of its running operation
Cancel(p) ==
    /\ pc[p] \in {"soap", "browse", "parse", "add"}
    /\ ~ctx[p]
    /\ ctx' = [ctx EXCEPT ![p] = TRUE]
    /\ UNCHANGED <<dvars, zvars, pc, op, arg, ctx0, err, raw, didl, perr, uri, ret,
                   calls, resp>>

\* Ungroup, ClearQueue, SetPlayMode, SetVolume, SetSleepTimer, Play: d.soap
\* and the return
SoapCall(p, reply) ==
    /\ pc[p] = "soap"
    /\ LET req == Request(op[p], arg[p])
           serr == serviceClient(handle[p], req.service)
           r == PerformActionCtx(ctx[p], reply)
       IN  IF serr # NoErr
           THEN /\ ret' = [ret EXCEPT ![p] = Wrap(OpMessage(op[p]), serr)]
                /\ UNCHANGED <<calls, resp>>
           ELSE /\ calls' = [calls EXCEPT ![p] = Append(@, Call(req, ctx[p], r))]
                /\ resp' = [resp EXCEPT ![p] = Append(@, Result(r, EmptyDoc))]
                /\ ret' = [ret EXCEPT ![p] =
                               IF r.err # NoErr THEN Wrap(OpMessage(op[p]), r.err)
                               ELSE NoErr]
    /\ pc' = [pc EXCEPT ![p] = "done"]
    /\ UNCHANGED <<dvars, zvars, op, arg, ctx, ctx0, err, raw, didl, perr, uri>>

\* LoadSonosPlaylist: the Browse call and its error check
LoadSonosPlaylist_Browse(p, reply) ==
    /\ pc[p] = "browse"
    /\ LET serr == serviceClient(handle[p], BrowseRequest.service)
           r == PerformActionCtx(ctx[p], reply)
           e == IF serr # NoErr THEN serr ELSE r.err
       IN  /\ IF serr # NoErr
              THEN UNCHANGED <<calls, resp>>
              ELSE /\ calls' = [calls EXCEPT ![p] = Append(@, Call(BrowseRequest, ctx[p], r))]
                   /\ resp' = [resp EXCEPT ![p] =
                                   Append(@, Result(r, IF r.err = NoErr THEN reply.doc
                                                       ELSE EmptyDoc))]
           /\ err' = [err EXCEPT ![p] = e]
           /\ IF e # NoErr
              THEN /\ ret' = [ret EXCEPT ![p] = Wrap("browsing", e)]
                   /\ pc' = [pc EXCEPT ![p] = "done"]
                   /\ raw' = raw
              ELSE /\ raw' = [raw EXCEPT ![p] = reply.doc]
                   /\ pc' = [pc EXCEPT ![p] = "parse"]
                   /\ ret' = ret
    /\ UNCHANGED <<dvars, zvars, op, arg, ctx, ctx0, didl, perr, uri>>

\* LoadSonosPlaylist: xml.Unmarshal, whose error is dropped (the if tests
\* err, the variable Browse's result was assigned to), and the scan
LoadSonosPlaylist_Parse(p) ==
    /\ pc[p] = "parse"
    /\ LET parsed == Unmarshal(raw[p])
           u == FindURI(parsed.Container, arg[p].s)
       IN  /\ didl' = [didl EXCEPT ![p] = parsed.Container]
           /\ perr' = [perr EXCEPT ![p] = parsed.err # NoErr]
           /\ IF err[p] # NoErr
              THEN /\ ret' = [ret EXCEPT ![p] = Wrap("unmarshaling DIDL-Lite XML", err[p])]
                   /\ pc' = [pc EXCEPT ![p] = "done"]
                   /\ uri' = uri
              ELSE /\ uri' = [uri EXCEPT ![p] = u]
                   /\ IF u = ""
                      THEN /\ ret' = [ret EXCEPT ![p] = NotFound(parsed.Container, arg[p].s)]
                           /\ pc' = [pc EXCEPT ![p] = "done"]
                      ELSE /\ ret' = ret
                           /\ pc' = [pc EXCEPT ![p] = "add"]
    /\ UNCHANGED <<dvars, zvars, op, arg, ctx, ctx0, err, raw, calls, resp>>

\* LoadSonosPlaylist: the AddURIToQueue call and the return
LoadSonosPlaylist_Add(p, reply) ==
    /\ pc[p] = "add"
    /\ LET req == AddURIToQueueRequest(uri[p])
           serr == serviceClient(handle[p], req.service)
           r == PerformActionCtx(ctx[p], reply)
           e == IF serr # NoErr THEN serr ELSE r.err
       IN  /\ IF serr # NoErr
              THEN UNCHANGED <<calls, resp>>
              ELSE /\ calls' = [calls EXCEPT ![p] = Append(@, Call(req, ctx[p], r))]
                   /\ resp' = [resp EXCEPT ![p] = Append(@, Result(r, EmptyDoc))]
           /\ err' = [err EXCEPT ![p] = e]
           /\ ret' = [ret EXCEPT ![p] = IF e # NoErr THEN Wrap("adding to queue", e)
                                        ELSE NoErr]
    /\ pc' = [pc EXCEPT ![p] = "done"]
    /\ UNCHANGED <<dvars, zvars, op, arg, ctx, ctx0, raw, didl, perr, uri>>

-----------------------------------------------------------------------------
(* Inputs *)

ActionReplies == {[err |-> NoErr, doc |-> EmptyDoc], [err |-> <<"remote error">>, doc |-> EmptyDoc]}

BrowseReplies(Docs) ==
    {[err |-> NoErr, doc |-> d] : d \in Docs}
        \cup {[err |-> <<"remote error">>, doc |-> EmptyDoc]}

ElementKinds ==
    {Element("container", t, r) : t \in {"Mix", "mix"}, r \in {"", "u1"}}
        \cup {Element("container", "Mix", "u2"), Element("item", "Mix", "u3")}

AllDocs == {Doc(es, b) : es \in SeqsUpTo(ElementKinds, MaxEntries), b \in BOOLEAN}

FewDocs ==
    {EmptyDoc,
     Doc(<<Element("container", "mix", "u1"), Element("container", "Mix", "u2")>>, FALSE),
     Doc(<<Element("container", "Mix", "u1")>>, TRUE)}

PlaylistNames == {"Mix", "Jazz"}

AllDurations ==
    {h * Hour + m * Minute + s * Second + ms * Millisecond :
        h \in {0, 1, MaxHours, 100}, m \in {0, 1, 2, 59}, s \in {0, 3, 30, 59},
        ms \in {0, 1, 999}}
        \cup {-1 * Millisecond, -1 * Second, -1 * Hour}

FewDurations == {0, 90 * Second}

OpArgs(Durations) ==
    {<<o, NoArg>> : o \in {"Ungroup", "ClearQueue", "Play"}}
        \cup {<<"SetPlayMode", Arg(m, "")>> : m \in {NormalPlayMode, ShuffleRepeatOne}}
        \cup {<<"SetVolume", Arg(v, "")>> : v \in {0, 100}}
        \cup {<<"SetSleepTimer", Arg(d, "")>> : d \in Durations}
        \cup {<<"LoadSonosPlaylist", Arg(0, n)>> : n \in PlaylistNames}

FewOpArgs ==
    {<<"SetVolume", Arg(100, "")>>, <<"SetSleepTimer", Arg(90 * Second, "")>>,
     <<"LoadSonosPlaylist", Arg(0, "Mix")>>}

ConcOpArgs == {<<"SetVolume", Arg(100, "")>>, <<"LoadSonosPlaylist", Arg(0, "Mix")>>}

ConcDocs ==
    {Doc(<<Element("container", "mix", "u1"), Element("container", "Mix", "u2")>>, FALSE),
     Doc(<<Element("container", "Mix", "")>>, TRUE)}

\* The callers P at work: ZoneDevice for the zones Zs, the operations and
\* arguments OAs (each called with a ctx whose state is in Cs), Browse
\* answered with the documents Docs
CallerNext(P, Zs, Cs, OAs, Docs) ==
    \E p \in P :
        \/ \E zone \in Zs, c \in Cs : ZoneDevice(p, zone, c)
        \/ \E zone \in Zs, c \in Cs : ZoneDevice_sonos_go(p, zone, c)
        \/ \E oa \in OAs, c \in Cs : Invoke(p, oa[1], oa[2], c)
        \/ Cancel(p)
        \/ \E reply \in ActionReplies : SoapCall(p, reply)
        \/ \E reply \in BrowseReplies(Docs) : LoadSonosPlaylist_Browse(p, reply)
        \/ LoadSonosPlaylist_Parse(p)
        \/ \E reply \in ActionReplies : LoadSonosPlaylist_Add(p, reply)
        \/ Return(p)

-----------------------------------------------------------------------------

InitWith(R) ==
    /\ mrds \in R
    /\ dpc = "start"
    /\ dctx \in BOOLEAN
    /\ dctx0 = dctx
    /\ idx = 1
    /\ devices = <<>>
    /\ zones = <<>>
    /\ derr = NoErr
    /\ dnet = <<>>
    /\ lookup = [i \in 1..Len(mrds) |-> Lookup("none", "")]
    /\ pc = [p \in Callers |-> "idle"]
    /\ zreq = [p \in Callers |-> NoCall]
    /\ handle = [p \in Callers |-> 0]
    /\ zerr = [p \in Callers |-> NoErr]
    /\ op = [p \in Callers |-> ""]
    /\ arg = [p \in Callers |-> NoArg]
    /\ ctx = [p \in Callers |-> FALSE]
    /\ ctx0 = [p \in Callers |-> FALSE]
    /\ err = [p \in Callers |-> NoErr]
    /\ raw = [p \in Callers |-> EmptyDoc]
    /\ didl = [p \in Callers |-> <<>>]
    /\ perr = [p \in Callers |-> FALSE]
    /\ uri = [p \in Callers |-> ""]
    /\ ret = [p \in Callers |-> NoErr]
    /\ calls = [p \in Callers |-> <<>>]
    /\ resp = [p \in Callers |-> <<>>]

Init == InitWith(SeqsUpTo(ResponseKinds, MaxResp))

\* Discovery over every kind of response, then one caller
Next == DiscoverNext \/ CallerNext({1}, ZoneQueries, BOOLEAN, FewOpArgs, FewDocs)

Spec == Init /\ [][Next]_vars

\* Discovery of one player, then one caller over every document and duration
InitOps == InitWith({<<Player>>})

NextOps ==
    DiscoverNext \/ CallerNext({1}, {"Kitchen"}, {FALSE}, OpArgs(AllDurations), AllDocs)

SpecOps == InitOps /\ [][NextOps]_vars

\* Discovery of two devices, then two callers at once
InitConc == InitWith({<<Player, Transport>>, <<Player, Player>>})

NextConc ==
    DiscoverNext \/ CallerNext(Callers, ZoneReplies, {FALSE}, ConcOpArgs, ConcDocs)

SpecConc == InitConc /\ [][NextConc]_vars

-----------------------------------------------------------------------------
(* Properties of Discover and ZoneDevice *)

InList(list, dev) == \E j \in 1..Len(list) : list[j] = dev
InSomeZone(dev) == \E z \in DOMAIN zones : InList(zones[z], dev)

\* The devices Discover recorded for a zone that advertise transport control
TransportDevices(zone) ==
    {i \in 1..Len(mrds) :
        /\ lookup[i] = Lookup("zoned", zone)
        /\ URN_AVTransport_1 \in mrds[i].services}
Recorded(zone) == {i \in 1..Len(mrds) : lookup[i] = Lookup("zoned", zone)}

\* C3: ZoneDevice returns either a handle or an error, never both and never
\* neither; for a zone with no recorded devices the error is the "unknown
\* zone" one, and for a known zone without a transport-control device it is
\* the other, "did not find an AV1 service" one.
C3_ZoneDeviceFailures ==
    \A p \in Callers :
        zreq[p].called =>
            /\ (handle[p] # 0) <=> (zerr[p] = NoErr)
            /\ Recorded(zreq[p].zone) = {} =>
                    /\ zerr[p] # NoErr
                    /\ zerr[p][1] = "unknown zone, or it has no devices"
            /\ (Recorded(zreq[p].zone) # {} /\ TransportDevices(zreq[p].zone) = {}) =>
                    /\ zerr[p] # NoErr
                    /\ zerr[p][1] = "did not find an AV1 service in zone"

\* C4: for a zone with a transport-control device, ZoneDevice returns the
\* handle of the one whose response came first; every zone's list is in
\* response order.
C4_FirstTransportDevice ==
    /\ \A z \in DOMAIN zones :
            \A a, b \in 1..Len(zones[z]) : a < b => zones[z][a] < zones[z][b]
    /\ \A p \in Callers :
            (zreq[p].called /\ TransportDevices(zreq[p].zone) # {}) =>
                /\ zerr[p] = NoErr
                /\ handle[p] \in TransportDevices(zreq[p].zone)
                /\ \A i \in TransportDevices(zreq[p].zone) : handle[p] <= i

C4_Witness ==
    \E p \in Callers :
        /\ zreq[p].called
        /\ Cardinality(TransportDevices(zreq[p].zone)) = 2
        /\ handle[p] = 1

\* C5: Discover returns an error only when the probe failed, before any
\* response was looked at; otherwise it returns the Client with no error
\* once every response is processed, and a vendor device whose zone lookup
\* failed (no zone-properties service, or GetZoneAttributes failed) is in the
\* flat list and in no zone's list.
C5_DiscoverAbsorbsFailures ==
    /\ derr # NoErr => (dpc = "failed" /\ idx = 1 /\ Len(dnet) = 1)
    /\ dpc = "failed" => derr = <<"discovering AV1", "probe failed">>
    /\ dpc = "returned" =>
            /\ derr = NoErr
            /\ idx = Len(mrds) + 1
            /\ \A i \in 1..Len(mrds) :
                    lookup[i].how \in {"noservice", "failed"} =>
                        InList(devices, i) /\ ~InSomeZone(i)

C5_Witness ==
    /\ dpc = "returned"
    /\ derr = NoErr
    /\ \E i, j, k \in 1..Len(mrds) :
            /\ lookup[i].how = "failed"
            /\ mrds[j].Err \/ lookup[j].how = "noservice"
            /\ lookup[k].how \in {"noservice", "failed"} /\ InList(devices, k)

\* C6: every device in a zone's list is in the flat list, and every device
\* in either is a device (not an errored response) whose manufacturer
\* contains the vendor name.
C6_ZonesWithinDevices ==
    /\ \A z \in DOMAIN zones :
            \A i \in 1..Len(zones[z]) : InList(devices, zones[z][i])
    /\ \A j \in 1..Len(devices) :
            /\ ~mrds[devices[j]].Err
            /\ Contains(mrds[devices[j]].Manufacturer, VendorName)

C6_Witness ==
    /\ dpc = "loop"
    /\ \E i, j \in 1..Len(mrds) :
            /\ i < idx /\ j < idx
            /\ ~mrds[i].Err /\ ~Contains(mrds[i].Manufacturer, VendorName)
            /\ InSomeZone(j) /\ InList(devices, j)

-----------------------------------------------------------------------------
(* Properties of the control operations *)

IsLoad(p) == op[p] = "LoadSonosPlaylist"

\* Browse returned without error
Browsed(p) == IsLoad(p) /\ Len(resp[p]) >= 1 /\ resp[p][1].err = NoErr

\* LoadSonosPlaylist is past its scan of a listing that parsed without error
Scanned(p) == Browsed(p) /\ pc[p] \in {"add", "done"} /\ ~perr[p]

\* The entries titled as the requested name, and the first of them
Matches(p) == {i \in 1..Len(didl[p]) : didl[p][i].Title = arg[p].s}
FirstMatch(p) == CHOOSE i \in Matches(p) : \A j \in Matches(p) : i <= j

\* The AddURIToQueue calls of the operation
AddCalls(p) == {i \in 1..Len(calls[p]) : calls[p][i].action = "AddURIToQueue"}

NotFoundError(p) ==
    /\ Len(ret[p]) = 3
    /\ ret[p][1] = "did not find Sonos playlist named"
    /\ ret[p][2] = arg[p].s

\* C1 as stated: once LoadSonosPlaylist has returned after a successful
\* Browse whose listing has an entry titled as requested, it has made exactly
\* one AddURIToQueue call, carrying the first such entry's resource locator,
\* whatever the locators are.
C1_AsStated ==
    \A p \in Callers :
        (Scanned(p) /\ pc[p] = "done" /\ Matches(p) # {}) =>
            /\ Cardinality(AddCalls(p)) = 1
            /\ \A i \in AddCalls(p) :
                    calls[p][i].in[2] = <<"EnqueuedURI", didl[p][FirstMatch(p)].Res>>

\* C1 (amended): as stated when the first matching entry's resource locator
\* is not empty; when it is empty the operation fails with "playlist not
\* found" and makes no AddURIToQueue call.
C1_FirstMatchEnqueued ==
    \A p \in Callers :
        (Scanned(p) /\ pc[p] = "done" /\ Matches(p) # {}) =>
            IF didl[p][FirstMatch(p)].Res # ""
            THEN /\ Cardinality(AddCalls(p)) = 1
                 /\ \A i \in AddCalls(p) :
                        calls[p][i].in[2] = <<"EnqueuedURI", didl[p][FirstMatch(p)].Res>>
            ELSE /\ AddCalls(p) = {}
                 /\ NotFoundError(p)

C1_Witness ==
    /\ Scanned(1) /\ pc[1] = "done"
    /\ Len(didl[1]) = 3
    /\ Matches(1) = {2, 3}
    /\ didl[1][2].Res # didl[1][3].Res
    /\ ret[1] = NoErr
    /\ Len(calls[1]) = 2
    /\ calls[1][2].in[2] = <<"EnqueuedURI", didl[1][2].Res>>

\* C7: when no entry of the listing is titled as the requested name,
\* LoadSonosPlaylist fails with "playlist not found", reporting the number of
\* entries of the listing, and makes no AddURIToQueue call.
C7_NotFoundReportsCount ==
    \A p \in Callers :
        (Scanned(p) /\ Matches(p) = {}) =>
            /\ pc[p] = "done"
            /\ NotFoundError(p)
            /\ ret[p][3] = Itoa(Len(didl[p]))
            /\ Len(didl[p]) = 0 => ret[p][3] = "0"
            /\ AddCalls(p) = {}

C7_Witness ==
    /\ Scanned(1) /\ pc[1] = "done"
    /\ Len(didl[1]) = 3
    /\ Matches(1) = {}
    /\ ret[1] = <<"did not find Sonos playlist named", "Jazz", "3">>
    /\ Len(calls[1]) = 1

\* Two digits for a number below 100, the number's digits otherwise
ZeroPadded(n) == IF n < 100 THEN Digit(n \div 10) \o Digit(n % 10) ELSE Itoa(n)

\* The duration string C8 describes
SleepTimerString(d) ==
    IF d <= 0 THEN ""
    ELSE ZeroPadded(d \div Hour) \o ":" \o ZeroPadded((d % Hour) \div Minute)
            \o ":" \o ZeroPadded((d % Minute) \div Second)

\* C8: SetSleepTimer sends "" for a duration that is not positive and
\* HH:MM:SS, zero-padded and truncated to the second, for a positive one;
\* 0 gives "", 1h2m3s "01:02:03" and 90s "00:01:30".
C8_SleepTimerEncoding ==
    \A p \in Callers :
        (op[p] = "SetSleepTimer" /\ Len(calls[p]) = 1) =>
            LET d == arg[p].n
                sent == calls[p][1].in[2]
            IN  /\ calls[p][1].action = "ConfigureSleepTimer"
                /\ sent = <<"NewSleepTimerDuration", SleepTimerString(d)>>
                /\ d = 0 => sent[2] = ""
                /\ d = 1 * Hour + 2 * Minute + 3 * Second => sent[2] = "01:02:03"
                /\ d = 90 * Second => sent[2] = "00:01:30"

C8_Witness ==
    /\ op[1] = "SetSleepTimer"
    /\ arg[1].n = 1 * Hour + 2 * Minute + 3 * Second + 999 * Millisecond
    /\ Len(calls[1]) = 1
    /\ calls[1][1].sent
    /\ calls[1][1].in[2] = <<"NewSleepTimerDuration", "01:02:03">>

\* C10: when the Browse result does not parse, LoadSonosPlaylist returns the
\* "unmarshaling DIDL-Lite XML" error, with no scan for the name and no
\* AddURIToQueue call.
C10_ParseFailureReported ==
    \A p \in Callers :
        (IsLoad(p) /\ perr[p]) =>
            /\ pc[p] = "done"
            /\ ret[p] # NoErr
            /\ ret[p][1] = "unmarshaling DIDL-Lite XML"
            /\ uri[p] = ""
            /\ AddCalls(p) = {}

\* C2: an operation called with a cancelled ctx returns an error and nothing
\* is sent on the network under a cancelled ctx: no probe, no
\* GetZoneAttributes, no action; LoadSonosPlaylist sends no AddURIToQueue
\* once its ctx is cancelled.
C2_CancelledContextFails ==
    /\ (dctx0 /\ dpc \in {"returned", "failed"}) => (derr # NoErr /\ dnet = <<>>)
    /\ \A i \in 1..Len(dnet) : ~dnet[i].cancelled
    /\ \A p \in Callers :
            /\ (zreq[p].called /\ zreq[p].cancelled) => (handle[p] = 0 /\ zerr[p] # NoErr)
            /\ (pc[p] = "done" /\ ctx0[p]) => ret[p] # NoErr
            /\ \A i \in 1..Len(calls[p]) : calls[p][i].cancelled => ~calls[p][i].sent

\* An operation run alone on device dev with argument a, its calls answered
\* by rs: the error it returns and the calls it makes
SoloRun(dev, o, a, rs) ==
    IF o = "LoadSonosPlaylist"
    THEN LET u == FindURI(Unmarshal(rs[1].doc).Container, a.s)
             browse == <<BrowseRequest>>
         IN  IF serviceClient(dev, URN_ContentDirectory_1) # NoErr
             THEN [ret |-> Wrap("browsing", serviceClient(dev, URN_ContentDirectory_1)),
                   reqs |-> <<>>]
             ELSE IF rs[1].err # NoErr
             THEN [ret |-> Wrap("browsing", rs[1].err), reqs |-> browse]
             ELSE IF u = ""
             THEN [ret |-> NotFound(Unmarshal(rs[1].doc).Container, a.s), reqs |-> browse]
             ELSE [ret |-> IF rs[2].err # NoErr THEN Wrap("adding to queue", rs[2].err)
                           ELSE NoErr,
                   reqs |-> Append(browse, AddURIToQueueRequest(u))]
    ELSE IF serviceClient(dev, Request(o, a).service) # NoErr
         THEN [ret |-> Wrap(OpMessage(o), serviceClient(dev, Request(o, a).service)),
               reqs |-> <<>>]
         ELSE [ret |-> IF rs[1].err # NoErr THEN Wrap(OpMessage(o), rs[1].err) ELSE NoErr,
               reqs |-> <<Request(o, a)>>]

Requests(p) ==
    [i \in 1..Len(calls[p]) |->
        [service |-> calls[p][i].service, action |-> calls[p][i].action,
         in |-> calls[p][i].in]]

AsAlone(p) ==
    pc[p] = "done" =>
        LET solo == SoloRun(handle[p], op[p], arg[p], resp[p])
        IN  /\ ret[p] = solo.ret
            /\ Requests(p) = solo.reqs
            /\ \A i \in 1..Len(calls[p]) : calls[p][i].sent = resp[p][i].sent

\* C9: once Discover has returned no step changes the Client's device list
\* or zone map, and whatever the interleaving of the callers' steps each
\* operation completes with the error and the calls it has when run alone
\* with the same replies.
C9_NoInterference ==
    [][/\ dpc = "returned" => (devices' = devices /\ zones' = zones)
       /\ \A p \in Callers : AsAlone(p)']_vars

C9_Witness ==
    /\ handle[1] # 0 /\ handle[2] # 0 /\ handle[1] # handle[2]
    /\ pc[1] = "done" /\ IsLoad(1) /\ Len(calls[1]) = 2 /\ ret[1] = NoErr
    /\ pc[2] = "add" /\ ctx[2]

=============================================================================
